---- MODULE Spec2Model ----
(***************************************************************************)
(* Model of ludwig's 2D-vector feature preprocessing                       *)
(* (ludwig/features/vector2d_feature.py) and of the SCARF pretrainer       *)
(* (ludwig/models/pretrainer.py).                                          *)
(*                                                                         *)
(* Spec      add_feature_data: finalize the parameters, then process the   *)
(*           column in memory or row by row into the on-disk dataset.      *)
(* SpecFin   _finalize_preprocessing_parameters alone, on a wider range of *)
(*           configurations and samples.                                   *)
(* SpecScarf ScarfModel.forward on one batch, with its call of _corrupt.   *)
(*                                                                         *)
(* add_feature_data reaches _finalize_preprocessing_parameters and         *)
(* _read_image_if_bytes_obj_and_resize through the name ImageFeatureMixin; *)
(* the model takes the definitions of those two methods given in           *)
(* vector2d_feature.py.                                                    *)
(***************************************************************************)
EXTENDS Integers, Sequences, FiniteSets, TLC

VARIABLES
    pp,          \* preprocessing_parameters (a dict the code mutates)
    column,      \* the input column: a sequence of raw entries
    in_memory,   \* feature_config[PREPROCESSING]["in_memory"]
    skip_save,   \* skip_save_processed_input
    pc,          \* position of add_feature_data
    err,         \* the exception that left the call, "" when none
    fin,         \* the tuple _finalize_preprocessing_parameters returned
    proc_col,    \* proc_df[feature_config[PROC_COLUMN]]
    dataset,     \* the rows of the h5 dataset <proc_column>_data
    store,       \* the h5 file handle: "unopened", "open", "closed"
    flushed,     \* number of h5_file.flush() calls made
    writes,      \* row indices in the order image_dataset[i, ...] was assigned
    row,         \* loop variable i of the on-disk pass (0-based)
    num_failed,  \* num_failed_image_reads
    reports,     \* number of aggregate "Failed to read N images" warnings
    sc,          \* ScarfModel: its batch, features and num_corrupted_features
    mask,        \* the corruption mask of the batch, mask[i][j]
    corrupted,   \* corrupted_inputs
    spc,         \* position of ScarfModel.forward and of its call of _corrupt
    fw,          \* ScarfModel.forward: its argument, the inputs dict, the result
    ls           \* SimCLR_Loss: its batch size and mask, a call of forward

imgVars == <<pp, column, in_memory, skip_save, pc, err, fin, proc_col, dataset,
             store, flushed, writes, row, num_failed, reports>>
scarfVars == <<sc, mask, corrupted, spc, fw, ls>>
vars == <<pp, column, in_memory, skip_save, pc, err, fin, proc_col, dataset,
          store, flushed, writes, row, num_failed, reports, sc, mask, corrupted, spc,
          fw, ls>>

\* Bounds of the model: the length of a column, the explicit heights and
\* widths, the heights and widths of the sampled images, the number of input
\* features, the batch size of the pretrainer and the batch size of the loss.
MaxRows == 2
MaxDim == 2
MaxImgDim == 3
MaxFeatures == 3
MaxBatch == 2
MaxLossBatch == 2

Min(a, b) == IF a <= b THEN a ELSE b

\* Python's None and an optional value.
None == <<>>
Some(v) == <<v>>
Val(x) == x[1]
\* Python truthiness of an optional integer: None and 0 are false.
Truthy(x) == x # None /\ Val(x) # 0

RECURSIVE SumSeq(_)
SumSeq(s) == IF s = <<>> THEN 0 ELSE s[1] + SumSeq(Tail(s))

RECURSIVE CountIn(_, _)
CountIn(s, v) == IF s = <<>> THEN 0 ELSE (IF s[1] = v THEN 1 ELSE 0) + CountIn(Tail(s), v)

----------------------------------------------------------------------------
(* Raw entries and images.                                                 *)

\* A decoded image: a uint8 tensor of shape (c, h, w); id names its pixels.
Tensor(c, h, w, id) == [c |-> c, h |-> h, w |-> w, id |-> id]
NoTensor == [c |-> 0, h |-> 0, w |-> 0, id |-> 0]

\* A raw entry of the column. kind is the Python type of the entry: "str" (a
\* file path), "bytes", "ndarray", "tensor", or "other" (None, NaN, a list).
\* img is what decoding it yields, NoTensor when it cannot be decoded.
Entry(kind, img) == [kind |-> kind, img |-> img]

\* One channel of a processed array: pixels of channel ch of image id, an
\* all-zero channel, or the gray constant.
Pix(id, ch) == [k |-> "pix", id |-> id, ch |-> ch]
ZeroChan == [k |-> "zero", id |-> 0, ch |-> 0]
GrayChan == [k |-> "gray", id |-> 0, ch |-> 0]

\* A float32 array of shape (c, h, w), channel by channel.
Array(c, h, w, chans) == [tag |-> "ndarray", shape |-> <<c, h, w>>, chans |-> chans]
NoneRow == [tag |-> "None", shape |-> <<>>, chans |-> <<>>]
IsArray(r) == r.tag = "ndarray"

----------------------------------------------------------------------------
(* _finalize_preprocessing_parameters and its helpers.                     *)

\* read_image_from_path / read_image_from_bytes_obj: the decoded tensor, or
\* nothing when the file or the bytes cannot be decoded.
ReadImage(e) == e.img

\* num_channels_in_image
NumChannelsInImage(img) == img.c

\* The image a sampled entry contributes in the sampling loop, NoTensor when
\* it goes to failed_entries. Only str entries are decoded there; any other
\* entry counts only when it already is a tensor or an ndarray.
SampleImage(e) ==
    IF e.kind = "str" THEN ReadImage(e)
    ELSE IF e.kind \in {"tensor", "ndarray"} THEN e.img
    ELSE NoTensor

\* column.head(n)
HeadOf(col, n) == SubSeq(col, 1, Min(Len(col), n))

\* A variant of PyRound that rounds a tie up.
PyRound_HalfUp(num, den) == (2 * num + den) \div (2 * den)

\* Python 3 round() of the quotient num/den (num >= 0, den > 0): to the
\* nearest integer, a tie going to the even one.
PyRound(num, den) ==
    LET q == num \div den
        r == num % den
    IN  IF 2 * r < den THEN q
        ELSE IF 2 * r > den THEN q + 1
        ELSE IF q % 2 = 0 THEN q ELSE q + 1

\* A variant of SetImageAndHeightEqualForEncoder that takes the larger of
\* the two.
SetImageAndHeightEqualForEncoder_Max(width, height, p) ==
    IF p.requires_equal_dimensions /\ height # width
    THEN LET m == IF width >= height THEN width ELSE height
         IN  [width |-> m, height |-> m,
              pp |-> [p EXCEPT !.width = Some(m), !.height = Some(m)]]
    ELSE [width |-> width, height |-> height, pp |-> p]

\* _set_image_and_height_equal_for_encoder: (width, height) and the
\* preprocessing parameters, which it updates when it changes the values.
SetImageAndHeightEqualForEncoder(width, height, p) ==
    IF p.requires_equal_dimensions /\ height # width
    THEN LET m == Min(width, height)
         IN  [width |-> m, height |-> m,
              pp |-> [p EXCEPT !.width = Some(m), !.height = Some(m)]]
    ELSE [width |-> width, height |-> height, pp |-> p]

\* _infer_image_size over a non-empty sample of tensors.
InferImageSize(sample, max_height, max_width, p) ==
    LET n == Len(sample)
        hs == [i \in 1..n |-> sample[i].h]
        ws == [i \in 1..n |-> sample[i].w]
        height == Min(PyRound(SumSeq(hs), n), max_height)
        width == Min(PyRound(SumSeq(ws), n), max_width)
    IN  SetImageAndHeightEqualForEncoder(width, height, p)

\* A variant of InferNumberOfChannels that takes half of the sample for a
\* majority.
InferNumberOfChannels_Half(sample) ==
    LET n == Len(sample)
        cs == [i \in 1..n |-> sample[i].c]
    IN  IF 2 * CountIn(cs, 1) >= n THEN 1
        ELSE IF 2 * CountIn(cs, 2) >= n THEN 2
        ELSE IF 2 * CountIn(cs, 4) >= n THEN 4
        ELSE 3

\* _infer_number_of_channels
InferNumberOfChannels(sample) ==
    LET n == Len(sample)
        cs == [i \in 1..n |-> NumChannelsInImage(sample[i])]
    IN  IF 2 * CountIn(cs, 1) > n THEN 1
        ELSE IF 2 * CountIn(cs, 2) > n THEN 2
        ELSE IF 2 * CountIn(cs, 4) > n THEN 4
        ELSE 3

\* A variant of SampleSize that takes one entry as soon as the size or the
\* channel count is given.
SampleSize_AnyExplicit(p, col) ==
    LET explicit_height_width == Truthy(p.height) \/ Truthy(p.width)
        explicit_num_channels == Truthy(p.num_channels)
    IN  IF p.infer_image_dimensions /\ ~(explicit_height_width \/ explicit_num_channels)
        THEN Min(Len(col), p.infer_image_sample_size)
        ELSE 1

\* sample_size
SampleSize(p, col) ==
    LET explicit_height_width == Truthy(p.height) \/ Truthy(p.width)
        explicit_num_channels == Truthy(p.num_channels)
    IN  IF p.infer_image_dimensions /\ ~(explicit_height_width /\ explicit_num_channels)
        THEN Min(Len(col), p.infer_image_sample_size)
        ELSE 1

\* The sampling loop: the decoded images, in column order.
SampleOf(p, col) ==
    LET head == HeadOf(col, SampleSize(p, col))
    IN  SelectSeq([i \in 1..Len(head) |-> SampleImage(head[i])], LAMBDA t: t # NoTensor)

\* failed_entries of the sampling loop.
FailedEntries(p, col) ==
    SelectSeq(HeadOf(col, SampleSize(p, col)), LAMBDA e: SampleImage(e) = NoTensor)

\* The exception raised when the sample is empty: str.join raises TypeError
\* on a failed entry that is not a str, before the ValueError is built.
EmptySampleError(failed) ==
    IF \E i \in 1..Len(failed): failed[i].kind # "str" THEN "TypeError" ELSE "ValueError"

Raised(e, p) ==
    [status |-> e, pp |-> p, should_resize |-> FALSE, width |-> 0, height |-> 0,
     num_channels |-> 0, user_specified_num_channels |-> FALSE,
     standardize_image |-> "none", sample_size |-> 0]

\* The height/width decision: status "ok" with the values, or the error.
FinalizeDims(p, sample) ==
    IF Truthy(p.height) \/ Truthy(p.width)
    THEN IF p.height = None \/ p.width = None
         THEN [status |-> "TypeError", width |-> 0, height |-> 0, pp |-> p]
         ELSE LET eq == SetImageAndHeightEqualForEncoder(Val(p.width), Val(p.height), p)
              IN  IF eq.height <= 0 \/ eq.width <= 0
                  THEN [status |-> "ValueError", width |-> eq.width,
                        height |-> eq.height, pp |-> eq.pp]
                  ELSE [status |-> "ok", width |-> eq.width,
                        height |-> eq.height, pp |-> eq.pp]
    ELSE IF p.infer_image_dimensions
         THEN LET inf == InferImageSize(sample, p.infer_image_max_height,
                                        p.infer_image_max_width, p)
              IN  [status |-> "ok", width |-> inf.width, height |-> inf.height,
                   pp |-> inf.pp]
         ELSE [status |-> "ValueError", width |-> 0, height |-> 0, pp |-> p]

\* A variant of FinalizeChannels that leaves the flag unset when the
\* channels are inferred.
FinalizeChannels_InferNotFlagged(p, sample) ==
    IF Truthy(p.num_channels)
    THEN [num_channels |-> Val(p.num_channels), user_specified |-> TRUE]
    ELSE IF p.infer_image_dimensions
         THEN [num_channels |-> InferNumberOfChannels(sample), user_specified |-> FALSE]
         ELSE [num_channels |-> NumChannelsInImage(sample[1]), user_specified |-> FALSE]

\* The channel decision: (num_channels, user_specified_num_channels).
FinalizeChannels(p, sample) ==
    IF Truthy(p.num_channels)
    THEN [num_channels |-> Val(p.num_channels), user_specified |-> TRUE]
    ELSE IF p.infer_image_dimensions
         THEN [num_channels |-> InferNumberOfChannels(sample), user_specified |-> TRUE]
         ELSE [num_channels |-> NumChannelsInImage(sample[1]), user_specified |-> FALSE]

\* A variant of FinalizeStandardize that keeps the configured mode.
FinalizeStandardize_Keep(p, num_channels) == p.standardize_image

\* The standardize_image returned; "none" stands for None.
FinalizeStandardize(p, num_channels) ==
    IF p.standardize_image = "imagenet1k" /\ num_channels # 3
    THEN "none" ELSE p.standardize_image

\* _finalize_preprocessing_parameters(preprocessing_parameters, _, column):
\* the returned tuple, or the exception, with the parameters as it left them.
FinalizePreprocessingParameters(p, col) ==
    LET sample == SampleOf(p, col)
    IN  IF Len(sample) = 0
        THEN [Raised(EmptySampleError(FailedEntries(p, col)), p)
                 EXCEPT !.sample_size = SampleSize(p, col)]
        ELSE LET d == FinalizeDims(p, sample)
             IN  IF d.status # "ok"
                 THEN [Raised(d.status, d.pp) EXCEPT !.sample_size = SampleSize(p, col)]
                 ELSE LET ch == FinalizeChannels(p, sample)
                      IN  [status |-> "ok", pp |-> d.pp,
                           should_resize |-> TRUE,
                           width |-> d.width, height |-> d.height,
                           num_channels |-> ch.num_channels,
                           user_specified_num_channels |-> ch.user_specified,
                           standardize_image |->
                               FinalizeStandardize(p, ch.num_channels),
                           sample_size |-> SampleSize(p, col)]

\* fin before the call returned.
NotFinalized(p) == Raised("none", p)

----------------------------------------------------------------------------
(* _read_image_if_bytes_obj_and_resize, the default image, the h5 dataset. *)

\* Lines 138-145: the tensor the entry is read to; NoTensor stands for any
\* value that is not a torch.Tensor.
DecodeEntry(e) ==
    IF e.kind \in {"bytes", "str"} THEN ReadImage(e)
    ELSE IF e.kind \in {"ndarray", "tensor"} THEN e.img
    ELSE NoTensor

\* The channels of a decoded image, and those of its grayscale conversion.
OwnChannels(img) == [i \in 1..img.c |-> Pix(img.id, i)]
Grayscale(img) == <<Pix(img.id, 0)>>

\* A variant of PadChannels that leaves the image as it is.
PadChannels_NoPad(chans, extra) == chans

\* torch.nn.functional.pad(img, [0, 0, 0, 0, 0, extra]): extra all-zero
\* channels after the channels of the image.
PadChannels(chans, extra) == chans \o [i \in 1..extra |-> ZeroChan]

ReadResult(status, arr) == [status |-> status, arr |-> arr]

\* A variant of AssertSingleChannel that lets every image pass.
AssertSingleChannel_Off(img_num_channels) == TRUE

\* Line 155: assert img_num_channels == 1.
AssertSingleChannel(img_num_channels) == img_num_channels = 1

\* _read_image_if_bytes_obj_and_resize(img_entry, img_width, img_height,
\* should_resize, num_channels, _, user_specified_num_channels, _):
\* status "array" with the array, "None", or the exception raised.
ReadImageIfBytesObjAndResize(e, img_width, img_height, should_resize, num_channels, user_specified_num_channels) ==
    LET img == DecodeEntry(e)
        img_num_channels == NumChannelsInImage(img)
        gray == num_channels = 1 /\ img_num_channels # 1
        chans1 == IF gray THEN Grayscale(img) ELSE OwnChannels(img)
        nch1 == IF gray THEN 1 ELSE img_num_channels
        h == IF should_resize THEN img_height ELSE img.h
        w == IF should_resize THEN img_width ELSE img.w
        chans2 == IF user_specified_num_channels /\ num_channels > nch1
                  THEN PadChannels(chans1, num_channels - nch1)
                  ELSE chans1
    IN  IF img = NoTensor THEN ReadResult("None", NoneRow)
        ELSE IF ~AssertSingleChannel(img_num_channels)
             THEN ReadResult("AssertionError", NoneRow)
        ELSE IF ~user_specified_num_channels /\ nch1 # num_channels
             THEN ReadResult("ValueError", NoneRow)
        ELSE IF h # img_height \/ w # img_width THEN ReadResult("ValueError", NoneRow)
        ELSE ReadResult("array", Array(Len(chans2), h, w, chans2))

\* The partial add_feature_data builds from the finalized tuple f.
ReadFn(e, f) ==
    ReadImageIfBytesObjAndResize(e, f.width, f.height, f.should_resize,
                                 f.num_channels, f.user_specified_num_channels)

\* get_gray_default_image(num_channels, height, width)
GetGrayDefaultImage(num_channels, height, width) ==
    Array(num_channels, height, width, [i \in 1..num_channels |-> GrayChan])

DefaultImage(f) == GetGrayDefaultImage(f.num_channels, f.height, f.width)

\* h5_file.create_dataset(name, (num_images, num_channels, height, width)):
\* rows of zeros.
CreateDataset(num_images, num_channels, height, width) ==
    [i \in 1..num_images |->
        Array(num_channels, height, width, [k \in 1..num_channels |-> ZeroChan])]

\* The shape of the block image_dataset[i, :height, :width, :] selects in a
\* row of shape (num_channels, height, width): the slices are clipped to the
\* axes they index, the channel axis and the height axis.
SliceShape(num_channels, height, width) ==
    <<Min(height, num_channels), Min(width, height), width>>

\* h5py broadcasts the assigned array to the selection only along axes where
\* the array has length 1.
Broadcastable(src_shape, sel_shape) ==
    \A k \in 1..3: src_shape[k] = 1 \/ src_shape[k] = sel_shape[k]

\* image_dataset[i, :height, :width, :] = value: the new content of row i,
\* or nothing when h5py raises TypeError (can't broadcast).
H5SetRow(old, value, num_channels, height, width) ==
    LET sel == SliceShape(num_channels, height, width)
    IN  IF ~Broadcastable(value.shape, sel) THEN NoneRow
        ELSE IF sel = old.shape /\ value.shape = sel THEN value
        ELSE [old EXCEPT !.chans = <<[k |-> "block", id |-> 0, ch |-> 0]>> \o value.chans]

\* A variant of CountNone that counts every row but the first.
CountNone_SkipFirst(results) ==
    Cardinality({i \in 2..Len(results): ~IsArray(results[i])})

\* proc_col.isna().sum()
CountNone(results) ==
    Cardinality({i \in 1..Len(results): ~IsArray(results[i])})

\* A variant of FillDefault that drops the rows that are no array.
FillDefault_Drop(results, default_image) == SelectSeq(results, IsArray)

\* map_objects(proc_col, lambda row: default_image if not isinstance(row,
\* np.ndarray) else row)
FillDefault(results, default_image) ==
    [i \in 1..Len(results) |-> IF IsArray(results[i]) THEN results[i] ELSE default_image]

\* The index of a processed column held as row indices.
IndexRow(i) == [tag |-> "index", shape |-> <<>>, chans |-> <<i>>]

\* A variant of Arange that counts from 1.
Arange_FromOne(n) == [i \in 1..n |-> IndexRow(i)]

\* upload_h5: the state of the file once the with block is left, normally
\* or by an exception: flushed and closed.
UploadH5Exit == "closed"

\* np.arange(num_images)
Arange(n) == [i \in 1..n |-> IndexRow(i - 1)]

----------------------------------------------------------------------------
(* add_feature_data, step by step.                                         *)

\* The preprocessing parameters the model reads.
Params(height, width, num_channels, infer, requires_equal, max_height, max_width, sample_size, standardize) ==
    [height |-> height, width |-> width, num_channels |-> num_channels,
     infer_image_dimensions |-> infer, requires_equal_dimensions |-> requires_equal,
     infer_image_max_height |-> max_height, infer_image_max_width |-> max_width,
     infer_image_sample_size |-> sample_size, standardize_image |-> standardize]

\* A file path that decodes to an image of shape (c, h, w), and one that
\* does not decode.
GoodPath(c, h, w) == Entry("str", Tensor(c, h, w, 100 * c + 10 * h + w))
BadPath == Entry("str", NoTensor)

\* Sequences over S of length at most n.
SeqsUpTo(S, n) == UNION {[1..k -> S] : k \in 0..n}

Errors == {"ValueError", "TypeError", "AssertionError"}

\* Lines 522-551: finalize the parameters; the default image and the
\* metadata follow from the tuple returned.
Finalize ==
    /\ pc = "start"
    /\ LET r == FinalizePreprocessingParameters(pp, column)
       IN  /\ fin' = r
           /\ pp' = r.pp
           /\ pc' = IF r.status = "ok" THEN "finalized" ELSE "error"
           /\ err' = IF r.status = "ok" THEN "" ELSE r.status
    /\ UNCHANGED <<column, in_memory, skip_save, proc_col, dataset, store, flushed,
                   writes, row, num_failed, reports>>
    /\ UNCHANGED scarfVars

\* Lines 554-567: the read function mapped over the column, the failures
\* counted, the default image substituted, the column stored.
InMemoryPass ==
    /\ pc = "finalized"
    /\ in_memory \/ skip_save
    /\ LET res == [i \in 1..Len(column) |-> ReadFn(column[i], fin)]
           bad == {i \in 1..Len(column): res[i].status \in Errors}
           arrs == [i \in 1..Len(column) |-> res[i].arr]
       IN  IF bad # {}
           THEN /\ pc' = "error"
                /\ err' = res[CHOOSE i \in bad: \A j \in bad: i <= j].status
                /\ UNCHANGED <<proc_col, num_failed>>
           ELSE /\ pc' = "report"
                /\ num_failed' = CountNone(arrs)
                /\ proc_col' = FillDefault(arrs, DefaultImage(fin))
                /\ UNCHANGED err
    /\ UNCHANGED <<pp, column, in_memory, skip_save, fin, dataset, store, flushed,
                   writes, row>>
    /\ UNCHANGED <<reports>>
    /\ UNCHANGED scarfVars

\* Lines 569-577: open the h5 file and create the dataset.
OpenStore ==
    /\ pc = "finalized"
    /\ ~(in_memory \/ skip_save)
    /\ store' = "open"
    /\ dataset' = CreateDataset(Len(column), fin.num_channels, fin.height, fin.width)
    /\ row' = 0
    /\ num_failed' = 0
    /\ pc' = "loop"
    /\ UNCHANGED <<pp, column, in_memory, skip_save, err, fin, proc_col, flushed,
                   writes, reports>>
    /\ UNCHANGED scarfVars

\* Lines 578-585: one iteration of the loop over the column. An exception
\* leaves the with block, which closes the file.
WriteRow ==
    /\ pc = "loop"
    /\ row < Len(column)
    /\ LET res == ReadFn(column[row + 1], fin)
           value == IF IsArray(res.arr) THEN res.arr ELSE DefaultImage(fin)
           new == H5SetRow(dataset[row + 1], value, fin.num_channels, fin.height,
                           fin.width)
       IN  IF res.status \in Errors \/ new = NoneRow
           THEN /\ pc' = "error"
                /\ err' = IF res.status \in Errors THEN res.status ELSE "TypeError"
                /\ store' = UploadH5Exit
                /\ UNCHANGED <<dataset, writes, row, num_failed>>
           ELSE /\ dataset' = [dataset EXCEPT ![row + 1] = new]
                /\ writes' = Append(writes, row)
                /\ num_failed' = num_failed + (IF IsArray(res.arr) THEN 0 ELSE 1)
                /\ row' = row + 1
                /\ UNCHANGED <<pc, err, store>>
    /\ UNCHANGED <<pp, column, in_memory, skip_save, fin, proc_col, flushed, reports>>
    /\ UNCHANGED scarfVars

\* Lines 586-588: flush, leave the with block, store the row indices.
FlushStore ==
    /\ pc = "loop"
    /\ row = Len(column)
    /\ flushed' = flushed + 1
    /\ store' = UploadH5Exit
    /\ proc_col' = Arange(Len(column))
    /\ pc' = "report"
    /\ UNCHANGED <<pp, column, in_memory, skip_save, err, fin, dataset, writes, row,
                   num_failed, reports>>
    /\ UNCHANGED scarfVars

\* Lines 590-596: the aggregate warning, then return proc_df.
Report ==
    /\ pc = "report"
    /\ reports' = IF num_failed > 0 THEN reports + 1 ELSE reports
    /\ pc' = "done"
    /\ UNCHANGED <<pp, column, in_memory, skip_save, err, fin, proc_col, dataset,
                   store, flushed, writes, row, num_failed>>
    /\ UNCHANGED scarfVars

\* ScarfModel.forward and SimCLR_Loss when not in use.
FwIdle == [tuple |-> FALSE, targets |-> <<>>, inputs |-> <<>>, anchor |-> <<>>, out |-> <<>>]
LsIdle ==
    [batch_size |-> 0, temperature |-> 1, mask |-> <<>>, z_i |-> <<>>, z_j |-> <<>>,
     status |-> "idle", logits |-> <<>>, loss |-> <<>>]

\* ScarfModel when not in use.
ModelIdle ==
    /\ sc = [m |-> 0, batch |-> 0, k |-> 0, dims |-> <<>>, rate |-> <<0, 1>>]
    /\ mask = <<>>
    /\ corrupted = <<>>
    /\ spc = "idle"
    /\ fw = FwIdle

\* The state of the pretrainer while the feature code runs, and back.
ScarfIdle ==
    /\ ModelIdle
    /\ ls = LsIdle

ImgStart ==
    /\ pc = "start"
    /\ err = ""
    /\ fin = NotFinalized(pp)
    /\ proc_col = <<>>
    /\ dataset = <<>>
    /\ store = "unopened"
    /\ flushed = 0
    /\ writes = <<>>
    /\ row = 0
    /\ num_failed = 0
    /\ reports = 0

\* Optional dimensions 1..MaxDim.
OptDims == {None} \cup {Some(d) : d \in 1..MaxDim}

\* The entries the columns of Spec are drawn from: paths to one-channel
\* images, to a three-channel image and to an unreadable file, an entry that
\* is no path at all, and an array.
AddEntries ==
    {GoodPath(1, 1, 2), GoodPath(1, 2, 1), GoodPath(3, 1, 1), BadPath,
     Entry("other", NoTensor), Entry("ndarray", Tensor(1, 2, 2, 5))}

Init ==
    /\ pp \in {Params(h, w, c, inf, FALSE, MaxDim, MaxDim, MaxRows, "none") :
                 h \in OptDims, w \in OptDims, c \in {None, Some(1), Some(3)},
                 inf \in BOOLEAN}
    /\ column \in SeqsUpTo(AddEntries, MaxRows)
    /\ \E m \in {<<TRUE, FALSE>>, <<FALSE, TRUE>>, <<FALSE, FALSE>>}:
          in_memory = m[1] /\ skip_save = m[2]
    /\ ImgStart
    /\ ScarfIdle

Next == Finalize \/ InMemoryPass \/ OpenStore \/ WriteRow \/ FlushStore \/ Report

Spec == Init /\ [][Next]_vars

----------------------------------------------------------------------------
(* Properties of add_feature_data.                                         *)

OnDisk == ~(in_memory \/ skip_save)
Returned == pc \in {"report", "done"}
FinalShape == <<fin.num_channels, fin.height, fin.width>>

\* What the read function yields for row i (1-based) of the column.
ReadOf(i) == ReadFn(column[i], fin)
Unreadable == {i \in 1..Len(column): ReadOf(i).status = "None"}

\* The array the processed column holds for row i: the array itself in
\* memory, the dataset row its index names on disk.
ProcessedRow(i) ==
    IF OnDisk THEN dataset[proc_col[i].chans[1] + 1] ELSE proc_col[i]

IsGrayOfShape(a, shape) ==
    /\ IsArray(a)
    /\ a.shape = shape
    /\ Len(a.chans) = shape[1]
    /\ \A k \in 1..Len(a.chans): a.chans[k] = GrayChan

C3_RowFailureNeverPropagates ==
    (pc = "error" /\ fin.status = "ok" /\ OnDisk /\ row < Len(column))
        => ReadOf(row + 1).status # "None"

\* The column the in-memory pass yields for the column and the finalized
\* parameters of this state.
InMemoryColumn ==
    FillDefault([i \in 1..Len(column) |-> ReadOf(i).arr], DefaultImage(fin))

\* C4: for every column whose rows the read function reads without raising
\* and every finalized shape, the on-disk pass completes and row i of the
\* dataset is the i-th entry the in-memory pass produces.
C4_OnDiskEqualsInMemory ==
    (/\ OnDisk
     /\ pc \in {"error", "done"}
     /\ fin.status = "ok"
     /\ \A i \in 1..Len(column): ReadOf(i).status \notin Errors)
        => /\ pc = "done"
           /\ \A i \in 1..Len(column): dataset[i] = InMemoryColumn[i]

\* C5: once the parameters are finalized, every array the read function
\* returns, for any entry, and every row of the processed column has the
\* shape (num_channels, height, width); and with explicit height and width
\* every decodable one-channel entry is read to an array.
C5_ShapeFixed ==
    fin.status = "ok" =>
        /\ \A e \in AddEntries:
              LET r == ReadFn(e, fin)
              IN  /\ r.status = "array" =>
                        r.arr.shape = FinalShape /\ Len(r.arr.chans) = fin.num_channels
                  /\ (/\ Truthy(pp.height) /\ Truthy(pp.width)
                      /\ \A i \in 1..Len(column): DecodeEntry(column[i]).c = 1
                      /\ DecodeEntry(e).c = 1)
                        => r.status = "array"
        /\ Returned => \A i \in 1..Len(column): ProcessedRow(i).shape = FinalShape

C5_Witness ==
    /\ pc = "done"
    /\ fin.num_channels = 3
    /\ Truthy(pp.height) /\ Truthy(pp.width)
    /\ fin.height # fin.width
    /\ Len(column) = 2
    /\ \A i \in 1..Len(column): ReadOf(i).status = "array"

\* Readable images of every channel depth.
ChannelEntries == {GoodPath(c, 1, 1) : c \in 1..4}

\* C19: once the parameters are finalized, the read of an image whose
\* channel count differs from num_channels yields an array when the count
\* is flagged as user-specified, the image's own channels first and
\* all-zero channels after them when channels are missing; when the count
\* is not flagged, the read fails with ValueError.
C19_ChannelReconciliation ==
    fin.status = "ok" =>
        \A e \in ChannelEntries:
            LET img == DecodeEntry(e)
                r == ReadFn(e, fin)
            IN  img.c # fin.num_channels =>
                    IF fin.user_specified_num_channels
                    THEN /\ r.status = "array"
                         /\ fin.num_channels > img.c =>
                               r.arr.chans = OwnChannels(img) \o
                                   [k \in 1..(fin.num_channels - img.c) |-> ZeroChan]
                    ELSE r.status = "ValueError"

C20_SequentialWrites ==
    OnDisk =>
        /\ writes = [i \in 1..Len(writes) |-> i - 1]
        /\ Len(writes) <= Len(column)
        /\ pc = "loop" => row = Len(writes)
        /\ flushed \in {0, 1}
        /\ flushed = 1 => Len(writes) = Len(column)
        /\ Returned => /\ flushed = 1
                       /\ proc_col = [i \in 1..Len(column) |-> IndexRow(i - 1)]
        /\ store = "open" <=> pc = "loop"
        /\ (Returned \/ (pc = "error" /\ fin.status = "ok")) => store = "closed"
        /\ pc \in {"start", "finalized"} \/ fin.status # "ok" => store = "unopened"

C20_Witness ==
    /\ OnDisk
    /\ pc = "done"
    /\ Len(column) = 2
    /\ writes = <<0, 1>>
    /\ flushed = 1
    /\ store = "closed"

----------------------------------------------------------------------------
(* _finalize_preprocessing_parameters on its own.                          *)

\* Explicit heights and widths, valid or not.
AnyDims == {None, Some(-1), Some(0)} \cup {Some(d) : d \in 1..MaxDim}

\* Columns of one-channel images of every size; no explicit size, with
\* inference under every maximum and sample cap, or without inference.
InitInferDims ==
    /\ pp \in {Params(None, None, None, TRUE, req, mx[1], mx[2], cap, "none") :
                 req \in BOOLEAN, cap \in {1, MaxRows},
                 mx \in {<<2, 2>>, <<MaxImgDim, 2>>, <<MaxImgDim, MaxImgDim>>}}
            \cup {Params(None, None, None, FALSE, req, MaxImgDim, MaxImgDim, MaxRows,
                         "none") : req \in BOOLEAN}
    /\ column \in SeqsUpTo({GoodPath(1, h, w) : h \in 1..MaxImgDim, w \in 1..MaxImgDim}
                           \cup {BadPath}, MaxRows)

\* Explicit sizes, valid or not.
InitExplicitDims ==
    /\ pp \in {Params(h, w, None, inf, req, MaxImgDim, MaxImgDim, MaxRows, "none") :
                 h \in AnyDims, w \in AnyDims, inf \in BOOLEAN, req \in BOOLEAN}
    /\ column \in SeqsUpTo({GoodPath(1, 1, 2), BadPath}, MaxRows)

\* Columns of images of every channel depth.
InitChannels ==
    /\ pp \in {Params(d, d, c, inf, FALSE, MaxImgDim, MaxImgDim, cap, std) :
                 d \in {None, Some(1)}, c \in {None} \cup {Some(n) : n \in 1..4},
                 inf \in BOOLEAN, cap \in {1, MaxRows},
                 std \in {"none", "imagenet1k", "custom"}}
    /\ column \in SeqsUpTo({GoodPath(c, 1, 1) : c \in 1..4} \cup {BadPath}, MaxRows)

\* Columns of entries of every Python type.
InitKinds ==
    /\ pp \in {Params(d, d, None, inf, FALSE, MaxImgDim, MaxImgDim, cap, "none") :
                 d \in {None, Some(1)}, inf \in BOOLEAN, cap \in {1, MaxRows}}
    /\ column \in SeqsUpTo({GoodPath(1, 1, 1), BadPath,
                            Entry("bytes", Tensor(1, 1, 1, 7)), Entry("bytes", NoTensor),
                            Entry("ndarray", Tensor(1, 1, 1, 8)),
                            Entry("tensor", Tensor(1, 1, 1, 9)),
                            Entry("other", NoTensor)}, MaxRows)

InitFin ==
    /\ InitInferDims \/ InitExplicitDims \/ InitChannels \/ InitKinds
    /\ in_memory = TRUE
    /\ skip_save = FALSE
    /\ ImgStart
    /\ ScarfIdle

NextFin == Finalize

SpecFin == InitFin /\ [][NextFin]_vars

\* The images of the sample the call drew: the sampled entries that decode.
DrawnSample ==
    LET head == HeadOf(column, fin.sample_size)
    IN  [i \in {j \in 1..Len(head): SampleImage(head[j]) # NoTensor} |-> SampleImage(head[i])]

\* r is the integer nearest to the mean of the values of f, the even one of
\* the two when the mean lies halfway.
IsRoundedMean(r, f) ==
    LET n == Cardinality(DOMAIN f)
        RECURSIVE Total(_)
        Total(S) == IF S = {} THEN 0
                    ELSE LET x == CHOOSE y \in S: TRUE IN f[x] + Total(S \ {x})
        d == r * n - Total(DOMAIN f)
        a == IF d < 0 THEN -d ELSE d
    IN  /\ 2 * a <= n
        /\ 2 * a = n => r % 2 = 0

\* C6: with no explicit height or width and inference enabled, and no
\* equal-dimension adjustment made, the height returned is the smaller of
\* max_height and the rounded mean of the sample heights, and the width
\* likewise; sample heights 10, 20, 30 give 20.
C6_InferredSize ==
    /\ InferImageSize(<<Tensor(1, 10, 30, 1), Tensor(1, 20, 30, 2), Tensor(1, 30, 30, 3)>>,
                      100, 100, pp).height = 20
    /\ (/\ pc = "finalized"
        /\ ~Truthy(pp.height) /\ ~Truthy(pp.width)
        /\ pp.infer_image_dimensions)
        => \E rh \in 0..(MaxImgDim + 1), rw \in 0..(MaxImgDim + 1):
              /\ IsRoundedMean(rh, [i \in DOMAIN DrawnSample |-> DrawnSample[i].h])
              /\ IsRoundedMean(rw, [i \in DOMAIN DrawnSample |-> DrawnSample[i].w])
              /\ LET h == IF rh <= pp.infer_image_max_height THEN rh
                          ELSE pp.infer_image_max_height
                     w == IF rw <= pp.infer_image_max_width THEN rw
                          ELSE pp.infer_image_max_width
                 IN  IF pp.requires_equal_dimensions
                     THEN h = w /\ fin.height = h /\ fin.width = w
                     ELSE fin.height = h /\ fin.width = w

C6_Witness ==
    /\ pc = "finalized"
    /\ ~Truthy(pp.height) /\ ~Truthy(pp.width)
    /\ pp.infer_image_dimensions
    /\ Len(column) = 2
    /\ column[1].img.h = 2 /\ column[2].img.h = 3
    /\ column[1].img.w = 3 /\ column[2].img.w = 3
    /\ fin.sample_size = 2
    /\ pp.infer_image_max_width = 2
    /\ fin.height = 2 /\ fin.width = 2

\* The number of images of the drawn sample with c channels.
Depth(c) == Cardinality({i \in DOMAIN DrawnSample: DrawnSample[i].c = c})

\* C7: an explicit num_channels is returned unchanged; otherwise with
\* inference enabled the result is the depth among 1, 2, 4 that strictly
\* more than half of the sample images have, and 3 when there is none;
\* otherwise it is the depth of the first sample image. Six one-channel
\* images of ten give 1; four three-channel images of ten, the rest mixed,
\* give 3.
C7_ChannelRule ==
    /\ InferNumberOfChannels([i \in 1..10 |-> Tensor(IF i <= 6 THEN 1 ELSE 3, 1, 1, i)]) = 1
    /\ InferNumberOfChannels([i \in 1..10 |->
           Tensor(IF i <= 4 THEN 3 ELSE IF i <= 6 THEN 1 ELSE IF i <= 8 THEN 2 ELSE 4,
                  1, 1, i)]) = 3
    /\ pc = "finalized" =>
        LET n == Cardinality(DOMAIN DrawnSample)
            first == CHOOSE i \in DOMAIN DrawnSample: \A j \in DOMAIN DrawnSample: i <= j
        IN  IF Truthy(pp.num_channels) THEN fin.num_channels = Val(pp.num_channels)
            ELSE IF pp.infer_image_dimensions
                 THEN \/ \E c \in {1, 2, 4}: 2 * Depth(c) > n /\ fin.num_channels = c
                      \/ /\ \A c \in {1, 2, 4}: 2 * Depth(c) <= n
                         /\ fin.num_channels = 3
                 ELSE fin.num_channels = DrawnSample[first].c

C7_Witness ==
    /\ pc = "finalized"
    /\ pp.num_channels = None
    /\ pp.infer_image_dimensions
    /\ Cardinality(DOMAIN DrawnSample) = 2
    /\ Depth(1) = 1
    /\ Depth(4) = 1
    /\ fin.num_channels = 3

\* C10: whenever none of the sampled entries decodes to an image, whatever
\* the entries are, the call fails with ValueError.
C10_EmptySampleValueError ==
    (pc # "start" /\ Len(SampleOf(pp, column)) = 0)
        => pc = "error" /\ err = "ValueError"

\* The call of _finalize_preprocessing_parameters has just ended.
FinalizeEnds == pc = "start" /\ pc' # "start"

\* C11: whenever neither height nor width is given and inference is
\* disabled, the call fails with ValueError, whether or not the first image
\* of the column was read.
C11_AmbiguousDimsValueError ==
    [][(/\ FinalizeEnds
        /\ pp.height = None /\ pp.width = None
        /\ ~pp.infer_image_dimensions)
          => (pc' = "error" /\ err' = "ValueError")]_vars

\* C12: whenever a height or a width is given and the sample is not empty,
\* the call either returns a positive height and a positive width or fails
\* with ValueError.
C12_ExplicitDimsPositiveOrValueError ==
    [][(/\ FinalizeEnds
        /\ pp.height # None \/ pp.width # None
        /\ Len(SampleOf(pp, column)) > 0)
          => \/ pc' = "finalized" /\ fin'.height > 0 /\ fin'.width > 0
             \/ pc' = "error" /\ err' = "ValueError"]_vars

\* C13: the mode returned is "imagenet1k" only with 3 channels; configured
\* with another channel count it is returned as no standardization, and the
\* call succeeds exactly when it succeeds with no standardization
\* configured; any other mode is returned as configured.
C13_StandardizeMode ==
    [][FinalizeEnds =>
        /\ (pc' = "finalized") <=>
              FinalizePreprocessingParameters(
                  [pp EXCEPT !.standardize_image = "none"], column).status = "ok"
        /\ pc' = "finalized" =>
              /\ fin'.standardize_image = "imagenet1k" => fin'.num_channels = 3
              /\ pp.standardize_image = "imagenet1k" =>
                    fin'.standardize_image =
                        (IF fin'.num_channels = 3 THEN "imagenet1k" ELSE "none")
              /\ pp.standardize_image # "imagenet1k" =>
                    fin'.standardize_image = pp.standardize_image]_vars

C13_Witness ==
    /\ pc = "finalized"
    /\ pp.standardize_image = "imagenet1k"
    /\ fin.num_channels = 1
    /\ fin.standardize_image = "none"

\* C17: the sample size of a call is the smaller of the column length and
\* the sample cap when inference is enabled and not both a size and a
\* channel count are given, and 1 in every other case; of a column that is
\* not empty that many entries are read.
C17_SampleSize ==
    [][FinalizeEnds =>
        LET both == (Truthy(pp.height) \/ Truthy(pp.width)) /\ Truthy(pp.num_channels)
            n == IF pp.infer_image_dimensions /\ ~both
                 THEN (IF Len(column) <= pp.infer_image_sample_size
                       THEN Len(column) ELSE pp.infer_image_sample_size)
                 ELSE 1
        IN  /\ fin'.sample_size = n
            /\ Len(column) > 0 =>
                  Len(SampleOf(pp, column)) + Len(FailedEntries(pp, column)) = n]_vars

C17_Witness ==
    /\ pc = "finalized"
    /\ pp.infer_image_dimensions
    /\ Truthy(pp.height) /\ Truthy(pp.num_channels)
    /\ Len(column) = 2 /\ pp.infer_image_sample_size = 2
    /\ fin.sample_size = 1

\* C18: of a call that returns, with h and w the explicit height and width,
\* or the inferred ones: when equal dimensions are required and h differs
\* from w, the height and the width returned and those stored in the
\* parameters are all min(w, h); otherwise h and w are returned and the
\* parameters are left as they were.
C18_EqualDimensions ==
    [][(FinalizeEnds /\ pc' = "finalized") =>
        LET explicit == Truthy(pp.height) \/ Truthy(pp.width)
            inferred == InferImageSize(SampleOf(pp, column), pp.infer_image_max_height,
                                       pp.infer_image_max_width,
                                       [pp EXCEPT !.requires_equal_dimensions = FALSE])
            h == IF explicit THEN Val(pp.height) ELSE inferred.height
            w == IF explicit THEN Val(pp.width) ELSE inferred.width
            m == IF w <= h THEN w ELSE h
        IN  IF pp.requires_equal_dimensions /\ h # w
            THEN /\ fin'.height = m /\ fin'.width = m
                 /\ pp' = [pp EXCEPT !.height = Some(m), !.width = Some(m)]
            ELSE /\ fin'.height = h /\ fin'.width = w
                 /\ pp' = pp]_vars

\* The inferred size (2, 3) made equal, and stored.
C18_Witness ==
    /\ pc = "finalized"
    /\ pp.requires_equal_dimensions
    /\ Len(column) = 1
    /\ column[1].img.h = 2 /\ column[1].img.w = 3
    /\ fin.height = 2 /\ fin.width = 2
    /\ pp.height = Some(2) /\ pp.width = Some(2)

\* One-channel images of several sizes, and images of other depths.
SizedEntries == {GoodPath(1, h, w) : h \in 1..2, w \in 1..2} \cup ChannelEntries

\* C23: when _finalize_preprocessing_parameters returns, should_resize is
\* true, and the returned user_specified_num_channels is true whenever
\* infer_image_dimensions is set, num_channels given or not: it is false
\* only without inference and without num_channels. So the read with the
\* returned parameters brings every image it yields to the returned height
\* and width, never fails on the size, and raises the ValueError of the
\* channel mismatch only when inference is off and num_channels was not
\* given.
C23_ResizeAndChannelFlag ==
    pc = "finalized" =>
        /\ fin.status = "ok"
        /\ fin.should_resize = TRUE
        /\ pp.infer_image_dimensions => fin.user_specified_num_channels = TRUE
        /\ fin.user_specified_num_channels = FALSE
              <=> (~pp.infer_image_dimensions /\ ~Truthy(pp.num_channels))
        /\ \A e \in SizedEntries:
              LET img == DecodeEntry(e)
                  r == ReadFn(e, fin)
              IN  /\ r.status = "ValueError" =>
                        /\ ~pp.infer_image_dimensions
                        /\ pp.num_channels = None
                        /\ img.c # fin.num_channels
                  /\ r.status = "array" =>
                        r.arr.shape = <<fin.num_channels, fin.height, fin.width>>
                  /\ (img.c = 1 /\ (pp.infer_image_dimensions \/ Truthy(pp.num_channels)))
                        => r.status = "array"

\* Inference without num_channels: the channels inferred from the sample
\* are more than one, the flag is set, and a one-channel image of another
\* size than the returned one is read to an array, padded and resized.
C23_Witness ==
    /\ pc = "finalized"
    /\ pp.infer_image_dimensions
    /\ pp.num_channels = None
    /\ fin.user_specified_num_channels
    /\ fin.should_resize
    /\ fin.num_channels > 1
    /\ fin.height = 1 /\ fin.width = 1
    /\ ReadFn(GoodPath(1, 2, 2), fin).status = "array"

----------------------------------------------------------------------------
(* ScarfModel._corrupt.                                                    *)

\* A batch of one feature: rank 1, shape (rows,), or rank 2, shape
\* (rows, cols); at[i][l] is the value at row i, position l (l = 1 in rank 1).
Batch(rank, rows, cols, at) == [rank |-> rank, rows |-> rows, cols |-> cols, at |-> at]
NoBatch == Batch(0, 0, 0, <<>>)

\* The batch of feature j the model is given, and the batch its
\* sample_augmentations draws: width 0 stands for a rank-1 feature.
InputValues(j, batch, width) ==
    Batch(IF width = 0 THEN 1 ELSE 2, batch, IF width = 0 THEN 1 ELSE width,
          [i \in 1..batch |-> [l \in 1..(IF width = 0 THEN 1 ELSE width) |-> <<"x", j, i, l>>]])
SampleAugmentations(j, batch, width) ==
    Batch(IF width = 0 THEN 1 ELSE 2, batch, IF width = 0 THEN 1 ELSE width,
          [i \in 1..batch |-> [l \in 1..(IF width = 0 THEN 1 ELSE width) |-> <<"a", j, i, l>>]])

\* A variant of NumCorruptedFeatures that rounds up.
NumCorruptedFeatures_Ceil(rate, m) == (rate[1] * m + rate[2] - 1) \div rate[2]

\* math.floor(corruption_rate * len(self.input_features)), the rate given as
\* the fraction rate[1] / rate[2].
NumCorruptedFeatures(rate, m) == (rate[1] * m) \div rate[2]

\* One row of the mask before the shuffle: mask[:, :k] = 1.
BaseRow(m, k) == [j \in 1..m |-> IF j <= k THEN 1 ELSE 0]

\* The orders argsort can return for a row of m random numbers.
Perms(m) == Permutations(1..m)

\* np.take_along_axis for one row: the row r taken along the indices p.
TakeAlong(r, p) == [j \in DOMAIN p |-> r[p[j]]]

\* shuffle_along_axis(mask, axis=1): every row is taken along a permutation
\* of its own, the argsort of a row of random numbers.
ShuffleAlongAxis(a, rows, m) ==
    LET perms == Perms(m)
        shuffles == [i \in 1..rows |-> {TakeAlong(a[i], p) : p \in perms}]
    IN  {s \in [1..rows -> UNION {shuffles[i] : i \in 1..rows}] :
            \A i \in 1..rows: s[i] \in shuffles[i]}

\* np.where(cond, x, y) for cond of shape (rows,) and x, y of one shape:
\* numpy aligns the shapes from the last axis, so cond runs along the last
\* axis of x and y. NoBatch when the shapes cannot be broadcast.
NpWhere(cond, x, y) ==
    LET n == Len(cond)
    IN  IF x.rank = 1
        THEN Batch(1, x.rows, 1,
                   [i \in 1..x.rows |-> <<IF cond[i] = 1 THEN x.at[i][1] ELSE y.at[i][1]>>])
        ELSE IF n # 1 /\ x.cols # 1 /\ n # x.cols THEN NoBatch
        ELSE LET cols == IF x.cols >= n THEN x.cols ELSE n
             IN  Batch(2, x.rows, cols,
                       [i \in 1..x.rows |-> [l \in 1..cols |->
                           LET c == cond[IF n = 1 THEN 1 ELSE l]
                               s == IF x.cols = 1 THEN 1 ELSE l
                           IN  IF c = 1 THEN x.at[i][s] ELSE y.at[i][s]]])

\* mask[:, j]
MaskColumn(msk, j) == [i \in 1..Len(msk) |-> msk[i][j]]

\* A value of the inputs dict: a numpy array or a torch tensor holding a
\* batch.
Value(kind, batch) == [kind |-> kind, batch |-> batch]

\* torch.from_numpy: a tensor over the values of the array.
FromNumpy(v) == Value("tensor", v.batch)

\* Lines 143-144: the inputs of a call given inputs or (inputs, targets).
UnpackInputs(tuple, inputs, targets) == inputs

\* _embed(inputs): every feature's encoder, the combiner over the encoder
\* outputs, the projection head over the combiner output.
Embed(values) ==
    <<"projection_head",
      <<"combiner", [j \in DOMAIN values |-> <<"encoder", j, values[j].batch>>]>>>>

\* A variant of ForwardResult that returns the pair the other way round.
ForwardResult_Swapped(anchor_embeddings, corrupted_embeddings) ==
    <<corrupted_embeddings, anchor_embeddings>>

\* Line 152: the pair forward returns.
ForwardResult(anchor_embeddings, corrupted_embeddings) ==
    <<anchor_embeddings, corrupted_embeddings>>

\* forward, lines 143-150: the tuple is unpacked and its targets dropped,
\* every value of the inputs dict is replaced by a tensor over it, the
\* anchor batch is embedded.
ForwardBegin ==
    /\ spc = "call"
    /\ LET inputs == UnpackInputs(fw.tuple, fw.inputs, fw.targets)
           tensors == [j \in DOMAIN inputs |-> FromNumpy(inputs[j])]
       IN  fw' = [fw EXCEPT !.targets = <<>>, !.inputs = tensors,
                            !.anchor = Embed(tensors)]
    /\ spc' = "ready"
    /\ UNCHANGED <<sc, mask, corrupted, ls>>
    /\ UNCHANGED imgVars

\* _corrupt(inputs): the mask is drawn, then every feature is rebuilt with
\* np.where; the first feature that cannot be broadcast raises ValueError.
Corrupt ==
    /\ spc = "ready"
    /\ \E msk \in ShuffleAlongAxis([i \in 1..sc.batch |-> BaseRow(sc.m, sc.k)],
                                    sc.batch, sc.m):
          LET outs == [j \in 1..sc.m |->
                          NpWhere(MaskColumn(msk, j),
                                  SampleAugmentations(j, sc.batch, sc.dims[j]),
                                  fw.inputs[j].batch)]
          IN  /\ mask' = msk
              /\ IF \E j \in 1..sc.m: outs[j] = NoBatch
                 THEN corrupted' = <<>> /\ spc' = "error"
                 ELSE corrupted' = outs /\ spc' = "done"
    /\ UNCHANGED <<sc, fw, ls>>
    /\ UNCHANGED imgVars

\* forward, lines 151-152: the corrupted batch is embedded and the pair
\* returned.
ForwardReturn ==
    /\ spc = "done"
    /\ LET corrupted_inputs == [j \in DOMAIN corrupted |-> Value("tensor", corrupted[j])]
       IN  fw' = [fw EXCEPT !.out = ForwardResult(fw.anchor, Embed(corrupted_inputs))]
    /\ spc' = "returned"
    /\ UNCHANGED <<sc, mask, corrupted, ls>>
    /\ UNCHANGED imgVars

\* The state of the feature code while the pretrainer runs.
ImgIdle ==
    /\ pp = Params(None, None, None, FALSE, FALSE, 0, 0, 0, "none")
    /\ column = <<>>
    /\ in_memory = TRUE
    /\ skip_save = FALSE
    /\ ImgStart

\* Corruption rates in [0, 1), as fractions.
Rates == {<<0, 10>>, <<3, 10>>, <<6, 10>>, <<9, 10>>}

\* Shapes of the features' values: 0 for one value a row, d for d values.
ValueWidths == {0, 1, 2, 3}

\* The targets of a batch given as (inputs, targets).
Targets == {<<"y", 1>>, <<"y", 2>>}

\* ScarfModel.__init__ for a model of m input features, and a call of
\* forward on a batch, given alone or with targets.
InitScarf ==
    /\ \E m \in 1..MaxFeatures, b \in 1..MaxBatch, rate \in Rates,
          dims \in [1..MaxFeatures -> ValueWidths]:
          /\ \A j \in (m + 1)..MaxFeatures: dims[j] = 0
          /\ sc = [m |-> m, batch |-> b, k |-> NumCorruptedFeatures(rate, m),
                   dims |-> dims, rate |-> rate]
          /\ \E t \in {<<>>} \cup Targets:
                fw = [FwIdle EXCEPT !.tuple = (t # <<>>), !.targets = t,
                         !.inputs = [j \in 1..m |->
                                        Value("ndarray", InputValues(j, b, dims[j]))]]
    /\ mask = <<>>
    /\ corrupted = <<>>
    /\ spc = "call"
    /\ ls = LsIdle
    /\ ImgIdle

NextScarf == ForwardBegin \/ Corrupt \/ ForwardReturn

SpecScarf == InitScarf /\ [][NextScarf]_vars

\* C8: the mask has batch_size rows and one column a feature, and every row
\* has exactly k = floor(rate * number of features) entries set, the same k
\* in all rows; 10 features at rate 0.6 give k = 6.
C8_MaskRowCount ==
    /\ NumCorruptedFeatures(<<6, 10>>, 10) = 6
    /\ spc \in {"done", "error"} =>
          /\ Len(mask) = sc.batch
          /\ \A i \in 1..sc.batch:
                /\ DOMAIN mask[i] = 1..sc.m
                /\ \E k \in 0..sc.m:
                      /\ k * sc.rate[2] <= sc.rate[1] * sc.m
                      /\ sc.rate[1] * sc.m < (k + 1) * sc.rate[2]
                      /\ Cardinality({j \in 1..sc.m: mask[i][j] = 1}) = k
                      /\ Cardinality({j \in 1..sc.m: mask[i][j] = 0}) = sc.m - k

\* Two rows of one mask that corrupt different features.
C8_Witness ==
    /\ spc = "done"
    /\ sc.m = 3 /\ sc.batch = 2
    /\ sc.k = 1
    /\ mask[1] # mask[2]

\* C9: _corrupt returns, and in the batch it returns the value of feature j
\* at row i is row i of the feature's augmentation batch where mask[i][j] is
\* set and row i of the input where it is not.
C9_RowwiseReplacement ==
    spc \notin {"call", "ready"} =>
        /\ spc \in {"done", "returned"}
        /\ \A j \in 1..sc.m: \A i \in 1..sc.batch:
              corrupted[j].at[i] =
                  IF mask[i][j] = 1
                  THEN SampleAugmentations(j, sc.batch, sc.dims[j]).at[i]
                  ELSE InputValues(j, sc.batch, sc.dims[j]).at[i]

----------------------------------------------------------------------------
(* SimCLR_Loss.                                                            *)

\* The elements of a sequence with their multiplicities.
BagOf(s) == [x \in {s[i] : i \in DOMAIN s} |-> Cardinality({i \in DOMAIN s: s[i] = x})]

\* A variant of MaskCorrelatedSamples whose second assignment of the loop
\* clears column 0 instead of column i.
MaskCorrelatedSamples_FirstColumn(batch_size) ==
    LET N == 2 * batch_size
    IN  [r \in 1..N |-> [c \in 1..N |->
            ~(\/ r = c
              \/ r <= batch_size /\ c = batch_size + r
              \/ r > batch_size /\ c = 1)]]

\* mask_correlated_samples(batch_size): ones, the diagonal cleared, then
\* mask[i, batch_size + i] and mask[batch_size + i, i] cleared for every i.
MaskCorrelatedSamples(batch_size) ==
    LET N == 2 * batch_size
    IN  [r \in 1..N |-> [c \in 1..N |->
            ~(\/ r = c
              \/ r <= batch_size /\ c = batch_size + r
              \/ c <= batch_size /\ r = batch_size + c)]]

\* The cosine similarity of two embeddings divided by the temperature: a
\* value that depends on the two embeddings, not on their order.
Similarity(x, y, temperature) == [of |-> {x, y}, temperature |-> temperature]

\* similarity_f(z.unsqueeze(1), z.unsqueeze(0)) / temperature
SimilarityMatrix(z, temperature) ==
    [r \in 1..Len(z) |-> [c \in 1..Len(z) |-> Similarity(z[r], z[c], temperature)]]

\* torch.diag(m, k) of a square matrix: the k-th diagonal, empty when k is
\* out of range.
Diag(m, k) ==
    LET n == Len(m)
    IN  IF k >= 0 THEN [r \in 1..(IF n > k THEN n - k ELSE 0) |-> m[r][r + k]]
        ELSE [r \in 1..(IF n > -k THEN n + k ELSE 0) |-> m[r - k][r]]

\* m[msk] for a boolean mask of the shape of m: the selected entries, row
\* by row.
RECURSIVE MaskedSelect(_, _)
MaskedSelect(m, msk) ==
    IF m = <<>> THEN <<>>
    ELSE LET cols == {c \in 1..Len(m[1]): msk[1][c]}
             RECURSIVE Pick(_)
             Pick(c) == IF c > Len(m[1]) THEN <<>>
                        ELSE (IF c \in cols THEN <<m[1][c]>> ELSE <<>>) \o Pick(c + 1)
         IN  Pick(1) \o MaskedSelect(Tail(m), Tail(msk))

\* flat.reshape(n, -1): n rows of equal length.
ReshapeRows(flat, n) ==
    LET w == Len(flat) \div n
    IN  [r \in 1..n |-> SubSeq(flat, (r - 1) * w + 1, r * w)]

\* A variant of CrossEntropy whose label is the last index of the row.
CrossEntropy_LastLogit(logit_row) == [target |-> logit_row[Len(logit_row)], over |-> BagOf(logit_row)]

\* CrossEntropyLoss of one row of logits against label 0: it depends on
\* the logit at index 0 and on the logits of the row, in any order.
CrossEntropy(logit_row) == [target |-> logit_row[1], over |-> BagOf(logit_row)]

\* A variant of BatchSizeOf that takes the batch size of the embeddings.
BatchSizeOf_Runtime(batch_size, z_i) == Len(z_i)

\* self.batch_size as forward reads it.
BatchSizeOf(batch_size, z_i) == batch_size

LossResult(status, logits, loss) == [status |-> status, logits |-> logits, loss |-> loss]

\* SimCLR_Loss.forward(z_i, z_j) of a loss built with batch_size: the rows
\* of logits and the loss, or the error raised.
SimCLRForward(batch_size, temperature, msk, z_i, z_j) ==
    LET b == BatchSizeOf(batch_size, z_i)
        N == 2 * b
        z == z_i \o z_j
        sim == SimilarityMatrix(z, temperature)
        sim_i_j == Diag(sim, b)
        sim_j_i == Diag(sim, -b)
        positive_flat == sim_i_j \o sim_j_i
        negative_flat == MaskedSelect(sim, msk)
        negative_samples == ReshapeRows(negative_flat, N)
        logits == [r \in 1..N |-> <<positive_flat[r]>> \o negative_samples[r]]
    IN  IF Len(positive_flat) # N THEN LossResult("RuntimeError", <<>>, <<>>)
        ELSE IF Len(msk) # Len(sim) THEN LossResult("IndexError", <<>>, <<>>)
        ELSE IF Len(negative_flat) % N # 0 THEN LossResult("RuntimeError", <<>>, <<>>)
        ELSE LossResult("returned", logits,
                        [sum |-> BagOf([r \in 1..N |-> CrossEntropy(logits[r])]),
                         over |-> N])

\* One call of forward.
LossForward ==
    /\ ls.status = "ready"
    /\ LET r == SimCLRForward(ls.batch_size, ls.temperature, ls.mask, ls.z_i, ls.z_j)
       IN  ls' = [ls EXCEPT !.status = r.status, !.logits = r.logits, !.loss = r.loss]
    /\ UNCHANGED <<sc, mask, corrupted, spc, fw>>
    /\ UNCHANGED imgVars

\* Embeddings of the anchor batch and of the corrupted batch: row r of the
\* corrupted batch differs from row r of the anchor batch or equals it.
AnchorEmbeddings(n) == [r \in 1..n |-> <<"anchor", r>>]
CorruptedEmbeddings(n) == [1..n -> {"anchor", "corrupted"}]

\* SimCLR_Loss.__init__(batch_size, temperature), and the two batches of
\* embeddings a call of forward is given.
InitLoss ==
    /\ \E B \in 1..MaxLossBatch, t \in {1, 2}, bi \in 1..(MaxLossBatch + 1),
          bj \in 1..(MaxLossBatch + 1):
          \E kinds \in CorruptedEmbeddings(bj):
             ls = [batch_size |-> B, temperature |-> t,
                   mask |-> MaskCorrelatedSamples(B),
                   z_i |-> AnchorEmbeddings(bi),
                   z_j |-> [r \in 1..bj |-> <<kinds[r], r>>],
                   status |-> "ready", logits |-> <<>>, loss |-> <<>>]
    /\ ModelIdle
    /\ ImgIdle

NextLoss == LossForward

SpecLoss == InitLoss /\ [][NextLoss]_vars

\* The per-row logits of a call as a collection: for every row its positive
\* and its negatives, the order of rows and of negatives left aside.
RowLogits(logits) ==
    BagOf([r \in DOMAIN logits |->
              [positive |-> logits[r][1], negatives |-> BagOf(Tail(logits[r]))]])

\* Both batches of the call have n embeddings.
BothOfSize(n) == Len(ls.z_i) = n /\ Len(ls.z_j) = n
Mismatched == \E n \in 1..(MaxLossBatch + 1): BothOfSize(n) /\ n # ls.batch_size
LossEnded == ls.status \notin {"idle", "ready"}

\* C14 as stated: a call with embeddings of another batch size than the
\* one of construction fails with an assertion.
C14_MismatchAssertion ==
    (LossEnded /\ Mismatched) => ls.status = "AssertionError"

\* C14 amended: such a call fails with the RuntimeError of reshape and
\* yields no loss; a call with batches of one size that returns a loss has
\* the batch size of construction.
C14_MismatchRuntimeError ==
    /\ (LossEnded /\ Mismatched) =>
          ls.status = "RuntimeError" /\ ls.loss = <<>> /\ ls.logits = <<>>
    /\ (ls.status = "returned" /\ Len(ls.z_i) = Len(ls.z_j)) =>
          BothOfSize(ls.batch_size)

C14_Witness ==
    /\ ls.status = "RuntimeError"
    /\ ls.batch_size = 2
    /\ BothOfSize(1)

\* The batches of n embeddings forward can be given.
LossBatches(n) == [1..n -> {<<k, r>> : k \in {"anchor", "corrupted"}, r \in 1..n}]

\* C15 as stated: for a loss of batch size 2 or more there are batches A
\* and B of that size for which forward(A, B) and forward(B, A) are built
\* from different per-row logits or yield different losses.
C15_AsymmetricExists ==
    (ls.status = "returned" /\ ls.batch_size >= 2) =>
        \E A \in LossBatches(ls.batch_size), B \in LossBatches(ls.batch_size):
            LET ab == SimCLRForward(ls.batch_size, ls.temperature, ls.mask, A, B)
                ba == SimCLRForward(ls.batch_size, ls.temperature, ls.mask, B, A)
            IN  RowLogits(ab.logits) # RowLogits(ba.logits) \/ ab.loss # ba.loss

\* C15 amended: for every call forward(A, B) that returns, forward(B, A)
\* returns too, is built from the same per-row (positive, negatives)
\* logits, rows and negatives in another order, and yields the same loss.
C15_SameLogits ==
    (ls.status = "returned" /\ BothOfSize(ls.batch_size)) =>
        LET ba == SimCLRForward(ls.batch_size, ls.temperature, ls.mask, ls.z_j, ls.z_i)
        IN  /\ ba.status = "returned"
            /\ RowLogits(ba.logits) = RowLogits(ls.logits)
            /\ ba.loss = ls.loss

\* A call on four different embeddings whose rows of logits come in
\* another order when the batches are exchanged.
C15_Witness ==
    /\ ls.status = "returned"
    /\ ls.batch_size = 2
    /\ BothOfSize(2)
    /\ Cardinality({ls.z_i[1], ls.z_i[2], ls.z_j[1], ls.z_j[2]}) = 4
    /\ SimCLRForward(ls.batch_size, ls.temperature, ls.mask, ls.z_j, ls.z_i).logits
          # ls.logits

\* The row whose embedding is the other view of the sample of row r.
TwinRow(r, B) == IF r <= B THEN r + B ELSE r - B

\* The columns of row r other than r and its twin, ascending.
OtherColumns(r, B) ==
    SelectSeq([c \in 1..(2 * B) |-> c], LAMBDA c: c # r /\ c # TwinRow(r, B))

\* C21: the mask of a loss of batch size B is a 2B x 2B boolean matrix,
\* false exactly on the diagonal and on the diagonals at offset +B and -B,
\* so every row selects 2B - 2 negatives; when a call on two batches of B
\* embeddings returns, row r of logits has at index 0 the similarity of row
\* r with row r + B (r <= B) or with row r - B (r > B), followed by the
\* similarities of row r with the other 2B - 2 rows; the loss is the sum
\* over the rows of the cross-entropy against index 0, divided by 2B.
C21_MaskAndPositives ==
    LET B == ls.batch_size
        N == 2 * B
        z == ls.z_i \o ls.z_j
        Sim(r, c) == Similarity(z[r], z[c], ls.temperature)
        Expected(r) ==
            <<Sim(r, TwinRow(r, B))>>
                \o [k \in 1..Len(OtherColumns(r, B)) |-> Sim(r, OtherColumns(r, B)[k])]
    IN  ls.status # "idle" =>
          /\ DOMAIN ls.mask = 1..N
          /\ \A r \in 1..N:
                /\ DOMAIN ls.mask[r] = 1..N
                /\ \A c \in 1..N:
                      ls.mask[r][c] \in BOOLEAN
                      /\ (ls.mask[r][c] = FALSE <=> (c = r \/ c = r + B \/ c = r - B))
                /\ Cardinality({c \in 1..N: ls.mask[r][c]}) = N - 2
          /\ (ls.status = "returned" /\ BothOfSize(B)) =>
                /\ DOMAIN ls.logits = 1..N
                /\ \A r \in 1..N:
                      /\ Len(ls.logits[r]) = 1 + (N - 2)
                      /\ ls.logits[r] = Expected(r)
                /\ ls.loss.over = N
                /\ ls.loss.sum =
                      BagOf([r \in 1..N |->
                                [target |-> Expected(r)[1], over |-> BagOf(Expected(r))]])

\* A call of a loss of batch size 2 on four different embeddings returns:
\* every row has its positive and two negatives.
C21_Witness ==
    /\ ls.status = "returned"
    /\ ls.batch_size = 2
    /\ BothOfSize(2)
    /\ Cardinality({ls.z_i[1], ls.z_i[2], ls.z_j[1], ls.z_j[2]}) = 4
    /\ \A r \in 1..4: Len(ls.logits[r]) = 3 /\ ls.logits[r][1] # ls.logits[r][3]

\* The batch forward was called with, as tensors.
GivenInputs == [j \in 1..sc.m |-> Value("tensor", InputValues(j, sc.batch, sc.dims[j]))]

\* C16: when forward returns, it returns the pair of the embedding of the
\* batch it was given and the embedding of the batch _corrupt built, both
\* by _embed; the inputs dict holds the values it was given from the call
\* on, also after _corrupt; the targets given with the batch appear
\* nowhere in the result.
C16_ForwardPair ==
    /\ spc = "returned" =>
          fw.out = <<Embed(GivenInputs),
                     Embed([j \in 1..sc.m |-> Value("tensor", corrupted[j])])>>
    /\ spc \in {"ready", "done", "error", "returned"} => fw.inputs = GivenInputs
    /\ spc = "call" =>
          \A j \in 1..sc.m: fw.inputs[j].batch = GivenInputs[j].batch

\* A call with targets returns, at least one value having been replaced.
C16_Witness ==
    /\ spc = "returned"
    /\ fw.tuple
    /\ sc.m = 2 /\ sc.batch = 2
    /\ \E j \in 1..sc.m: corrupted[j] # fw.inputs[j].batch
    /\ fw.out[1] # fw.out[2]

====
